---- MODULE Spec2Model ----
(***************************************************************************)
(* A model of the AI trading engine (AITradingEngine) and of the emergency *)
(* responder (EmergencyResponseSystem) of RLE_asset_management1.           *)
(*                                                                         *)
(* Units.  Money and prices are integers.  A confidence is a percentage    *)
(* (0.75 is 75).  A weight is counted in 1/100000 of the portfolio (0.096  *)
(* is 9600), a risk score in 1/1000 (0.7 is 700), a profit/loss rate in    *)
(* percent (-0.05 is -5).  Comparisons of quotients are cross-multiplied,  *)
(* so no rounding is introduced by the integer arithmetic.                 *)
(*                                                                         *)
(* Concurrency.  The engine runs on one JavaScript event loop: the code    *)
(* between two awaits of a broker, AI or timer call is one atomic action,  *)
(* and every such await is a point where another invocation may run.       *)
(***************************************************************************)
EXTENDS Integers, Sequences, FiniteSets, TLC

\* ------------------------------------------------------------------ bounds
MaxDay == 2          \* calendar dates the clock runs through
MaxRuns == 2         \* executeRebalancing invocations entered
MaxTimers == 2       \* monitoring intervals registered at once
MaxHistory == 3      \* risk-metrics requests answered by one risk engine
NumSimulations == 20 \* trials of one Monte Carlo run (numSimulations)

\* ------------------------------------------------------- program constants
WeightUnit == 100000         \* weights are in 1/WeightUnit
RebalanceBand == 1000        \* 0.01: minimal weight gap for a decision
MaxRiskScore == 700          \* 0.7: decisions above it are dropped
StopLossRate == -5           \* profitLossRate <= -0.05 forces a sell
TakeProfitRate == 20         \* profitLossRate >= 0.20 forces a half sell
StopLossTargetSize == 0      \* targetSize of the stop-loss decision
TakeProfitTargetSize == 50000 \* targetSize 0.5 of the take-profit decision

\* ------------------------------------------------------------ environment
Callers == {"c1"}            \* a request to the engine
Requests == {"c1", "c2"}     \* concurrent requests to the engine
Monitors == {"m1"}           \* a run of the monitoring interval's callback
Procs == Requests \cup Monitors

Symbols == <<"A", "B">>
Confidences == {40, 80}
Sentiments == {"bullish", "bearish"}
Prices == {40, 100}

Pos(s, q, p, pl) ==
    [symbol |-> s, quantity |-> q, currentPrice |-> p,
     evaluationAmount |-> q * p, profitLossRate |-> pl]

\* Snapshots the broker may answer getAccountBalance with.
AcctCash ==
    [totalAssets |-> 1000, cashBalance |-> 1000, stockValue |-> 0,
     positions |-> << >>]
AcctHeld ==
    [totalAssets |-> 1000, cashBalance |-> 50, stockValue |-> 950,
     positions |-> << Pos("A", 10, 40, -6), Pos("B", 10, 55, 25) >>]
Accounts == {AcctCash, AcctHeld}
NoAccount ==
    [totalAssets |-> 0, cashBalance |-> 0, stockValue |-> 0, positions |-> << >>]

\* createDefaultTradingConfig, for a given maxTradesPerDay and frequency
DefaultConfig(maxTrades, freq) ==
    [enableAutoTrading |-> FALSE,
     riskLimits |-> [maxPositionSize |-> 10, maxDailyLoss |-> 2,
                     maxDrawdown |-> 5, minCashRatio |-> 10,
                     maxLeverage |-> 100],
     confidenceThreshold |-> 75,
     maxTradesPerDay |-> maxTrades,
     targetSymbols |-> Symbols,
     rebalanceFrequency |-> freq]

\* ------------------------------------------------------- pure functions
Min(a, b) == IF a <= b THEN a ELSE b
Abs(a) == IF a < 0 THEN -a ELSE a

\* the position of a symbol in a snapshot (Array.find / Map.get): a
\* sequence with the position, or the empty sequence
FindPosition(positions, sym) ==
    SelectSeq(positions, LAMBDA q : q.symbol = sym)

\* the multiplier times 10; unknown sentiments count 1.0
SentimentMultiplier(sentiment) ==
    CASE sentiment = "bullish" -> 12
      [] sentiment = "neutral" -> 10
      [] sentiment = "bearish" -> 8
      [] OTHER -> 10

\* confidence * maxPositionSize * multiplier, capped at maxPositionSize
calculateTargetWeightUncapped(confidence, sentiment, cfg) ==
    confidence * cfg.riskLimits.maxPositionSize * SentimentMultiplier(sentiment)
calculateTargetWeight(confidence, sentiment, cfg) ==
    Min(confidence * cfg.riskLimits.maxPositionSize * SentimentMultiplier(sentiment),
        cfg.riskLimits.maxPositionSize * 1000)

\* pos is the result of FindPosition
calculateRiskScore(confidence, pos) ==
    Min((100 - confidence) * 4
          + (IF Len(pos) > 0 /\ pos[1].profitLossRate < StopLossRate
               THEN 300 ELSE 0)
          + 200,
        1000)

Decision(sym, act, conf, target, risk) ==
    [symbol |-> sym, action |-> act, confidence |-> conf,
     targetSize |-> target, riskScore |-> risk]

\* the decision of one signal: a sequence with it, or empty for "hold"
DecisionOfWithHold(signal, balance, sentiment, cfg) ==
    LET pos == FindPosition(balance.positions, signal.symbol)
        cur == IF Len(pos) > 0 THEN pos[1].evaluationAmount ELSE 0
        tw == calculateTargetWeight(signal.confidence, sentiment, cfg)
        total == balance.totalAssets
        act == IF tw * total > cur * WeightUnit + RebalanceBand * total
                 THEN "buy"
               ELSE IF tw * total < cur * WeightUnit - RebalanceBand * total
                 THEN "sell"
               ELSE "hold"
    IN << Decision(signal.symbol, act, signal.confidence, tw,
                   calculateRiskScore(signal.confidence, pos)) >>
DecisionOf(signal, balance, sentiment, cfg) ==
    LET pos == FindPosition(balance.positions, signal.symbol)
        cur == IF Len(pos) > 0 THEN pos[1].evaluationAmount ELSE 0
        tw == calculateTargetWeight(signal.confidence, sentiment, cfg)
        total == balance.totalAssets
        act == IF tw * total > cur * WeightUnit + RebalanceBand * total
                 THEN "buy"
               ELSE IF tw * total < cur * WeightUnit - RebalanceBand * total
                 THEN "sell"
               ELSE "hold"
    IN IF act = "hold" THEN << >>
       ELSE << Decision(signal.symbol, act, signal.confidence, tw,
                        calculateRiskScore(signal.confidence, pos)) >>

RECURSIVE generateTradingDecisions(_, _, _, _)
generateTradingDecisions(signals, balance, sentiment, cfg) ==
    IF signals = << >> THEN << >>
    ELSE DecisionOf(Head(signals), balance, sentiment, cfg)
           \o generateTradingDecisions(Tail(signals), balance, sentiment, cfg)


\* the loop of filterDecisionsByRisk; daily is this.dailyTrades, which the
\* loop reads and never changes
RECURSIVE filterDecisionsLoopNoConfidence(_, _, _)
filterDecisionsLoopNoConfidence(decisions, daily, cfg) ==
    IF decisions = << >> THEN << >>
    ELSE IF daily >= cfg.maxTradesPerDay THEN << >>
    ELSE IF Head(decisions).riskScore > MaxRiskScore
      THEN filterDecisionsLoopNoConfidence(Tail(decisions), daily, cfg)
    ELSE << Head(decisions) >>
           \o filterDecisionsLoopNoConfidence(Tail(decisions), daily, cfg)
RECURSIVE filterDecisionsLoopRiskBreak(_, _, _)
filterDecisionsLoopRiskBreak(decisions, daily, cfg) ==
    IF decisions = << >> THEN << >>
    ELSE IF daily >= cfg.maxTradesPerDay THEN << >>
    ELSE IF Head(decisions).riskScore > MaxRiskScore THEN << >>
    ELSE IF Head(decisions).confidence < cfg.confidenceThreshold
      THEN filterDecisionsLoopRiskBreak(Tail(decisions), daily, cfg)
    ELSE << Head(decisions) >>
           \o filterDecisionsLoopRiskBreak(Tail(decisions), daily, cfg)
RECURSIVE filterDecisionsLoop(_, _, _)
filterDecisionsLoop(decisions, daily, cfg) ==
    IF decisions = << >> THEN << >>
    ELSE IF daily >= cfg.maxTradesPerDay THEN << >>
    ELSE IF Head(decisions).riskScore > MaxRiskScore
      THEN filterDecisionsLoop(Tail(decisions), daily, cfg)
    ELSE IF Head(decisions).confidence < cfg.confidenceThreshold
      THEN filterDecisionsLoop(Tail(decisions), daily, cfg)
    ELSE << Head(decisions) >> \o filterDecisionsLoop(Tail(decisions), daily, cfg)

\* the date check that opens filterDecisionsByRisk
DailyResetAlways(daily, lastDate, currentDate) ==
    [dailyTrades |-> 0, lastTradeDate |-> currentDate, reset |-> TRUE]
DailyReset(daily, lastDate, currentDate) ==
    IF lastDate # currentDate
      THEN [dailyTrades |-> 0, lastTradeDate |-> currentDate, reset |-> TRUE]
      ELSE [dailyTrades |-> daily, lastTradeDate |-> lastDate, reset |-> FALSE]

\* quantity = floor(|totalAssets * targetSize - currentAmount| / price)
TradeQuantityAtLeastOne(balance, decision, price) ==
    LET pos == FindPosition(balance.positions, decision.symbol)
        cur == IF Len(pos) > 0 THEN pos[1].evaluationAmount ELSE 0
        q == Abs(balance.totalAssets * decision.targetSize - cur * WeightUnit)
               \div (WeightUnit * price)
    IN IF q = 0 THEN 1 ELSE q
TradeQuantity(balance, decision, price) ==
    LET pos == FindPosition(balance.positions, decision.symbol)
        cur == IF Len(pos) > 0 THEN pos[1].evaluationAmount ELSE 0
    IN Abs(balance.totalAssets * decision.targetSize - cur * WeightUnit)
         \div (WeightUnit * price)

StockOrder(decision, quantity) ==
    [symbol |-> decision.symbol, orderType |-> decision.action,
     orderMethod |-> "market", quantity |-> quantity]
NoOrder ==
    [symbol |-> "none", orderType |-> "none", orderMethod |-> "none", quantity |-> 0]
NoDecision == Decision("none", "hold", 0, 0, 0)

TradingResult(decision, executed, message) ==
    [decision |-> decision, executed |-> executed, errorMessage |-> message]

\* what an invocation gave its caller
NoRet == [kind |-> "none", results |-> << >>, error |-> "none"]
Results(rs) == [kind |-> "results", results |-> rs, error |-> "none"]
Error(msg) == [kind |-> "error", results |-> << >>, error |-> msg]
Started == [kind |-> "started", results |-> << >>, error |-> "none"]
Ended == [kind |-> "ended", results |-> << >>, error |-> "none"]

\* cashBalance / totalAssets < minCashRatio; NaN and Infinity compare false
LowCash(balance, cfg) ==
    /\ balance.totalAssets # 0
    /\ balance.cashBalance * 100 < cfg.riskLimits.minCashRatio * balance.totalAssets

\* checkStopLossAndTakeProfit visits, for each position in turn, the
\* stop-loss check (odd step) and then the take-profit check (even step)
SweepPosition(positions, k) == positions[(k + 1) \div 2]
SweepTriggers(positions, k) ==
    IF k % 2 = 1
      THEN SweepPosition(positions, k).profitLossRate <= StopLossRate
      ELSE SweepPosition(positions, k).profitLossRate >= TakeProfitRate
RECURSIVE NextTrigger(_, _)
NextTrigger(positions, k) ==
    IF k > 2 * Len(positions) THEN 0
    ELSE IF SweepTriggers(positions, k) THEN k
    ELSE NextTrigger(positions, k + 1)
SweepDecision(positions, k) ==
    IF k % 2 = 1
      THEN Decision(SweepPosition(positions, k).symbol, "sell", 100,
                    StopLossTargetSize, 1000)
      ELSE Decision(SweepPosition(positions, k).symbol, "sell", 100,
                    TakeProfitTargetSize, 100)

\* { ...config, ...newConfig }
MergeConfigOverDefaults(cfg, newConfig) ==
    [f \in DOMAIN cfg |->
        IF f \in DOMAIN newConfig THEN newConfig[f]
        ELSE DefaultConfig(1, "daily")[f]]
MergeConfig(cfg, newConfig) ==
    [f \in DOMAIN cfg |-> IF f \in DOMAIN newConfig THEN newConfig[f] ELSE cfg[f]]
ConfigUpdates == {[confidenceThreshold |-> 40], [confidenceThreshold |-> 80]}
\* no updateConfiguration call yet
NoUpdate == [none |-> TRUE]
\* partial configurations a caller may supply
ConfigPartials ==
    ConfigUpdates \cup
    {[maxTradesPerDay |-> 3], [maxTradesPerDay |-> 5],
     [rebalanceFrequency |-> "realtime"], [enableAutoTrading |-> TRUE],
     [targetSymbols |-> << "A" >>],
     [maxTradesPerDay |-> 3, confidenceThreshold |-> 80],
     [riskLimits |-> [DefaultConfig(1, "daily").riskLimits EXCEPT !.maxLeverage = 50]]}

\* --------------------------------------- RiskManagementSystem, pure part
\* Limits are in percent, money in whole units.  a / b as JavaScript
\* computes it is kept as the pair: 0 / 0 is NaN, a / 0 with a > 0 is
\* Infinity, a / 0 with a < 0 stands for -Infinity.  Denominators are
\* never negative.
Quotient(a, b) == [num |-> a, den |-> b]
Number(a) == Quotient(a, 1)
IsNaN(q) == q.den = 0 /\ q.num = 0
IsFinite(q) == q.den # 0

\* q > a / b for b > 0: NaN compares false, Infinity exceeds every number
ExceedsOrEquals(q, a, b) ==
    IF q.den = 0 THEN q.num > 0 ELSE q.num * b >= a * q.den
Exceeds(q, a, b) ==
    IF q.den = 0 THEN q.num > 0 ELSE q.num * b > a * q.den

\* Math.max(x, y) of two quotients: NaN when either is NaN
MaxQuotient(x, y) ==
    IF IsNaN(x) \/ IsNaN(y) THEN Quotient(0, 0)
    ELSE IF x.den = 0 THEN (IF x.num > 0 THEN x ELSE y)
    ELSE IF y.den = 0 THEN (IF y.num > 0 THEN y ELSE x)
    ELSE IF x.num * y.den >= y.num * x.den THEN x ELSE y

\* x + y of two finite quotients
AddQuotient(x, y) ==
    IF x.den = y.den THEN Quotient(x.num + y.num, x.den)
    ELSE Quotient(x.num * y.den + y.num * x.den, x.den * y.den)

Max(a, b) == IF a >= b THEN a ELSE b

\* balance.stockValue / balance.totalAssets
calculateLeverage(balance) == Quotient(balance.stockValue, balance.totalAssets)

\* the loop of calculateDrawdownMetrics over performanceHistory from its
\* k-th value on, with the running peak and the largest drawdown so far
RECURSIVE MaxDrawdownLoop(_, _, _, _)
MaxDrawdownLoop(history, k, peak, maxDrawdown) ==
    IF k > Len(history) THEN maxDrawdown
    ELSE LET newPeak == Max(peak, history[k])
             drawdown == Quotient(newPeak - history[k], newPeak)
         IN MaxDrawdownLoop(history, k + 1, newPeak,
                            MaxQuotient(maxDrawdown, drawdown))

\* calculateDrawdownMetrics: the fields it leaves and the metrics it returns
calculateDrawdownMetrics(performanceHistory, maxHistoricalValue, balance) ==
    LET history == Append(performanceHistory, balance.totalAssets)
        peak == Max(maxHistoricalValue, balance.totalAssets)
    IN [performanceHistory |-> history,
        maxHistoricalValue |-> peak,
        drawdown |->
          [currentDrawdown |-> Quotient(peak - balance.totalAssets, peak),
           maxDrawdown |-> MaxDrawdownLoop(history, 1, 0, Number(0))]]

\* getSector: the sector of a symbol, 'Others' for one not in the map
getSector(symbol) ==
    CASE symbol \in {"005930", "000660", "035420", "207940"} -> "Technology"
      [] symbol = "051910" -> "Chemical"
      [] symbol \in {"068270", "035720"} -> "Healthcare"
      [] symbol = "006400" -> "Steel"
      [] symbol = "028260" -> "Consumer"
      [] symbol = "012330" -> "Mobile"
      [] OTHER -> "Others"

\* calculateConcentrationRisk: what it returns, and as positions what it
\* leaves in balance.positions, on which it calls sort.  Math.max of no
\* weights is -Infinity; sectorConcentration.get(sector) || 0 takes 0 for
\* a missing, zero or NaN entry; Array.prototype.sort is stable and the
\* comparator b.evaluationAmount - a.evaluationAmount puts the larger first.
calculateConcentrationRisk(balance) ==
    LET positions == balance.positions
        totalValue == balance.totalAssets
        weights == [i \in DOMAIN positions |->
                      Quotient(positions[i].evaluationAmount, totalValue)]
        RECURSIVE MathMax(_)
        MathMax(ws) ==
            IF ws = << >> THEN Quotient(-1, 0)
            ELSE MaxQuotient(Head(ws), MathMax(Tail(ws)))
        RECURSIVE SectorLoop(_, _, _)
        SectorLoop(sector, k, current) ==
            IF k > Len(positions) THEN current
            ELSE SectorLoop(sector, k + 1,
                            IF getSector(positions[k].symbol) = sector
                              THEN AddQuotient(IF current.num = 0 THEN Number(0)
                                               ELSE current,
                                               weights[k])
                              ELSE current)
        RECURSIVE InsertPosition(_, _)
        InsertPosition(x, sorted) ==
            IF sorted = << >> THEN << x >>
            ELSE IF Head(sorted).evaluationAmount > x.evaluationAmount
                   THEN << Head(sorted) >> \o InsertPosition(x, Tail(sorted))
                   ELSE << x >> \o sorted
        RECURSIVE SortPositions(_)
        SortPositions(ps) ==
            IF ps = << >> THEN << >>
            ELSE InsertPosition(Head(ps), SortPositions(Tail(ps)))
        sectors == {getSector(positions[i].symbol) : i \in DOMAIN positions}
        sorted == SortPositions(positions)
    IN [maxSinglePosition |-> MathMax(weights),
        sectorConcentration |->
          [sec \in sectors |-> SectorLoop(sec, 1, Number(0))],
        topPositions |-> SubSeq(sorted, 1, Min(5, Len(sorted))),
        positions |-> sorted]

NoMetrics ==
    [var95 |-> 0, var99 |-> 0, leverage |-> Number(0),
     concentration |-> [maxSinglePosition |-> Number(0),
                        sectorConcentration |-> << >>,
                        topPositions |-> << >>],
     liquidity |-> [liquidityRatio |-> 100],
     correlation |-> [avgCorrelation |-> 0],
     drawdown |-> [currentDrawdown |-> Number(0), maxDrawdown |-> Number(0)]]

\* the three breakers of checkCircuitBreakers, with the given triggered flags
Breakers(t) ==
    << [name |-> "Emergency VaR Breaker", action |-> "emergency_exit", triggered |-> t[1]],
       [name |-> "Drawdown Breaker", action |-> "halt_trading", triggered |-> t[2]],
       [name |-> "Leverage Breaker", action |-> "reduce_position", triggered |-> t[3]] >>

\* checkCircuitBreakers: thresholds maxDailyLoss * 20000, maxDrawdown * 2,
\* maxLeverage * 1.5
checkCircuitBreakersTriggeredOnly(metrics, limits) ==
    SelectSeq(
      Breakers(<< Exceeds(Number(metrics.var99), limits.maxDailyLoss * 200, 1),
                  Exceeds(metrics.drawdown.currentDrawdown, limits.maxDrawdown * 2, 100),
                  Exceeds(metrics.leverage, limits.maxLeverage * 3, 200) >>),
      LAMBDA b : b.triggered)
checkCircuitBreakers(metrics, limits) ==
    Breakers(<< Exceeds(Number(metrics.var99), limits.maxDailyLoss * 200, 1),
                Exceeds(metrics.drawdown.currentDrawdown, limits.maxDrawdown * 2, 100),
                Exceeds(metrics.leverage, limits.maxLeverage * 3, 200) >>)

\* generateRiskAlerts: the six alerts in its order, each pushed when its
\* rule holds; liquidityRatio and avgCorrelation are in percent
LeverageAlert == [level |-> "critical", category |-> "leverage"]
DrawdownAlert == [level |-> "emergency", category |-> "drawdown"]
LiquidityFloor == 30
CorrelationCeiling == 70
RiskAlerts(holds) ==
    LET all == << [level |-> "critical", category |-> "var"],
                  [level |-> "warning", category |-> "concentration"],
                  LeverageAlert, DrawdownAlert,
                  [level |-> "warning", category |-> "liquidity"],
                  [level |-> "info", category |-> "correlation"] >>
        RECURSIVE Pushed(_)
        Pushed(k) == IF k > Len(all) THEN << >>
                     ELSE (IF holds[k] THEN << all[k] >> ELSE << >>) \o Pushed(k + 1)
    IN Pushed(1)
RiskRules(metrics, limits, drawdownLimit) ==
    << metrics.var95 > limits.maxDailyLoss * 100,
       Exceeds(metrics.concentration.maxSinglePosition, limits.maxPositionSize, 100),
       Exceeds(metrics.leverage, limits.maxLeverage, 100),
       Exceeds(metrics.drawdown.currentDrawdown, drawdownLimit, 100),
       metrics.liquidity.liquidityRatio < LiquidityFloor,
       metrics.correlation.avgCorrelation > CorrelationCeiling >>
generateRiskAlertsLate(metrics, limits) ==
    RiskAlerts(RiskRules(metrics, limits, limits.maxDrawdown * 5))
generateRiskAlertsFirstOnly(metrics, limits) ==
    LET alerts == RiskAlerts(RiskRules(metrics, limits, limits.maxDrawdown))
    IN IF alerts = << >> THEN alerts ELSE << Head(alerts) >>
generateRiskAlerts(metrics, limits) ==
    RiskAlerts(RiskRules(metrics, limits, limits.maxDrawdown))

\* a RiskManagementSystem constructed with the given limits; of its last
\* request, fetched is the snapshot as getAccountBalance answered it,
\* balance the same snapshot as calculateRiskMetrics left it, and metrics,
\* alerts and breakers are what was computed
RiskSystem(limits) ==
    [riskLimits |-> limits, performanceHistory |-> << >>, maxHistoricalValue |-> 0,
     fetched |-> NoAccount, balance |-> NoAccount, metrics |-> NoMetrics,
     alerts |-> << >>, breakers |-> << >>]

\* snapshots, VaR figures and limits of the risk requests
Balance(total, stock) ==
    [totalAssets |-> total, cashBalance |-> total - stock, stockValue |-> stock,
     positions |-> << >>]
RiskHeld ==
    [totalAssets |-> 1000, cashBalance |-> 400, stockValue |-> 600,
     positions |-> << Pos("005930", 5, 40, 0), Pos("000660", 6, 50, 0),
                      Pos("051910", 2, 50, 0) >>]
RiskHeldLow ==
    [totalAssets |-> 900, cashBalance |-> 300, stockValue |-> 600,
     positions |-> << Pos("000660", 6, 50, 0), Pos("005930", 5, 40, 0),
                      Pos("999999", 2, 50, 0) >>]
RiskBalances ==
    {Balance(1000, 800), Balance(1000, 750), Balance(900, 0), Balance(800, 800),
     Balance(0, 0), RiskHeld, RiskHeldLow}
Var99s == {400, 401}
LimitChoices ==
    {[DefaultConfig(1, "daily").riskLimits EXCEPT !.maxDrawdown = d, !.maxLeverage = l] :
        d \in {5, 10}, l \in {100, 50}}

\* ------------------------------------------------ calculatePortfolioVaR
\* Simulated returns are in percent and simulated values in hundredths of
\* a money unit, so that position.quantity * position.currentPrice *
\* (1 + randomReturn) stays a whole number.
ReturnUnit == 100

\* portfolioValues.sort((a, b) => a - b)
SortValuesNone(values) == values
SortValues(values) ==
    LET RECURSIVE InsertValue(_, _)
        InsertValue(x, sorted) ==
            IF sorted = << >> THEN << x >>
            ELSE IF Head(sorted) < x
                   THEN << Head(sorted) >> \o InsertValue(x, Tail(sorted))
                   ELSE << x >> \o sorted
        RECURSIVE SortLoop(_)
        SortLoop(vs) ==
            IF vs = << >> THEN << >>
            ELSE InsertValue(Head(vs), SortLoop(Tail(vs)))
    IN SortLoop(values)

\* calculatePortfolioVaR for the draws of its trials: draws[i][j] is the
\* return drawn in trial i for position j.  Indices of the code count
\* from 0.  The answers are in hundredths, as portfolioValues is.
calculatePortfolioVaR(balance, draws) ==
    LET positions == balance.positions
        \* the inner loop over the positions from the j-th on
        RECURSIVE SimulatedValue(_, _)
        SimulatedValue(returns, j) ==
            IF j > Len(positions) THEN 0
            ELSE positions[j].quantity * positions[j].currentPrice
                   * (ReturnUnit + returns[j])
                   + SimulatedValue(returns, j + 1)
        RECURSIVE SumValues(_)
        SumValues(values) ==
            IF values = << >> THEN 0 ELSE Head(values) + SumValues(Tail(values))
        portfolioValues ==
            [i \in 1..NumSimulations |-> SimulatedValue(draws[i], 1)]
        sorted == SortValues(portfolioValues)
        currentValue == balance.totalAssets * ReturnUnit
        \* Math.floor(numSimulations * 0.05), Math.floor(numSimulations * 0.01)
        var95Index == (NumSimulations * 5) \div 100
        var99Index == NumSimulations \div 100
        tailLosses == SubSeq(sorted, 1, var95Index)
    IN [portfolioValues |-> portfolioValues,
        var95 |-> currentValue - sorted[var95Index + 1],
        var99 |-> currentValue - sorted[var99Index + 1],
        expectedShortfall |->
          Quotient(currentValue * Len(tailLosses) - SumValues(tailLosses),
                   Len(tailLosses))]

\* what the trials may draw: returns of -5% in k1 trials, of 1% in k2
\* trials and of 5% in the others, starting from trial off, each position
\* one trial behind the position before it
DrawsOf(k1, k2, off, n) ==
    [i \in 1..NumSimulations |->
       [j \in 1..n |->
          LET r == (i + j + off) % NumSimulations
          IN IF r < k1 THEN -5 ELSE IF r < k1 + k2 THEN 1 ELSE 5]]
AcctOne ==
    [totalAssets |-> 400, cashBalance |-> 0, stockValue |-> 400,
     positions |-> << Pos("A", 10, 40, 0) >>]

\* ------------------------------------------------------------------ state
VARIABLES
    isRunning,           \* AITradingEngine.isRunning
    dailyTrades,         \* AITradingEngine.dailyTrades
    lastTradeDate,       \* AITradingEngine.lastTradeDate; 0 is ''
    performanceMetrics,  \* AITradingEngine.performanceMetrics
    config,              \* AITradingEngine.config
    timers,              \* monitoring intervals registered and not cleared
    today,               \* the calendar date new Date() answers
    inv,                 \* per invocation: where it is suspended, its locals
    em,                  \* the run of handleEmergency: position and locals
    submittedToday,      \* history: placeOrder calls of trade batches today
    runs,                \* history: executeRebalancing invocations entered
    lastUpdate,          \* history: the last argument of updateConfiguration
    risk,                \* RiskManagementSystem: config, fields, last answers
    calc                 \* the last call of a pure method: arguments and answer

vars == <<isRunning, dailyTrades, lastTradeDate, performanceMetrics, config,
          timers, today, inv, em, submittedToday, runs, lastUpdate, risk, calc>>


\* the locals of an invocation that is not running; filterThreshold is
\* history: the confidenceThreshold that filterDecisionsByRisk read
\* and entryThreshold the one in force when executeRebalancing was entered;
\* predictions is history: what predictPrice answered per target symbol so
\* far (-1 when it threw); sinceSubmit is history: "nodelay" from a
\* placeOrder call of the batch until the inter-trade delay has elapsed;
\* decisions is history: what generateTradingDecisions handed to the filter
Idle ==
    [pc |-> "idle", ret |-> NoRet, warned |-> FALSE,
     currentBalance |-> NoAccount, analysis |-> "none",
     targetSymbols |-> << >>, signals |-> << >>, sigIdx |-> 0,
     validDecisions |-> << >>, filterThreshold |-> 0,
     results |-> << >>, idx |-> 0,
     sweepBalance |-> NoAccount, sweepStep |-> 0,
     decision |-> NoDecision, esBalance |-> NoAccount, order |-> NoOrder,
     entryThreshold |-> 0, predictions |-> << >>, sinceSubmit |-> "none",
     decisions |-> << >>]

\* the locals of an invocation that hands ret to its caller
Returned(ret) == [Idle EXCEPT !.pc = "returned", !.ret = ret]

\* the locals of handleEmergency; dispatched and log are history: how many
\* breakers' actions were called, and the placeOrder calls with their outcome
EmIdle ==
    [pc |-> "idle", ret |-> NoRet, triggered |-> << >>, balance |-> NoAccount,
     i |-> 0, j |-> 0, order |-> NoOrder, dispatched |-> 0, log |-> << >>]

EngineInit(maxTrades, freq, symbols) ==
    /\ isRunning = FALSE
    /\ dailyTrades = 0
    /\ lastTradeDate = 0
    /\ performanceMetrics =
         [totalTrades |-> 0, winTrades |-> 0, totalPnL |-> 0, maxDrawdown |-> 0]
    /\ config = [DefaultConfig(maxTrades, freq) EXCEPT !.targetSymbols = symbols]
    /\ timers = 0
    /\ today = 1
    /\ inv = [p \in Procs |-> Idle]
    /\ em = EmIdle
    /\ submittedToday = 0
    /\ runs = 0
    /\ lastUpdate = NoUpdate

\* no pure method called yet; a behaviour observes one call
NoCall == [fn |-> "none"]

InitWith(maxTrades, freq, symbols) ==
    /\ EngineInit(maxTrades, freq, symbols)
    /\ calc = NoCall
    /\ risk = RiskSystem(DefaultConfig(maxTrades, freq).riskLimits)

Init == InitWith(1, "daily", Symbols)

engineVars == <<isRunning, dailyTrades, lastTradeDate, performanceMetrics, config, timers>>
historyVars == <<submittedToday, runs, lastUpdate>>

\* ------------------------------------------------------- start and stop
StartEnter(p) ==
    /\ inv[p].pc = "idle"
    /\ timers < MaxTimers
    /\ inv' = [inv EXCEPT ![p] =
                 IF isRunning
                   THEN Returned(Error("Trading engine is already running"))
                   ELSE [Idle EXCEPT !.pc = "st_balance"]]
    /\ UNCHANGED <<engineVars, today, em, historyVars, risk, calc>>

SafetyCheckFailed == Error("Cannot start trading engine - safety check failed")

\* performSafetyChecks, the cash-ratio check: a low ratio is logged as a
\* warning and throws nothing
CashRatioCheckBlocks(balance, cfg) ==
    [warned |-> LowCash(balance, cfg), throws |-> LowCash(balance, cfg)]
CashRatioCheck(balance, cfg) ==
    [warned |-> LowCash(balance, cfg), throws |-> FALSE]

\* performSafetyChecks: getAccountBalance answers or throws
StartBalance(p) ==
    /\ inv[p].pc = "st_balance"
    /\ \/ \E a \in Accounts :
            LET check == CashRatioCheck(a, config)
            IN inv' = [inv EXCEPT ![p] =
                         IF check.throws
                           THEN [Returned(SafetyCheckFailed) EXCEPT
                                    !.warned = check.warned]
                           ELSE [inv[p] EXCEPT !.pc = "st_analysis",
                                               !.warned = check.warned]]
       \/ inv' = [inv EXCEPT ![p] = Returned(SafetyCheckFailed)]
    /\ UNCHANGED <<engineVars, today, em, historyVars, risk, calc>>

\* what start() does once performSafetyChecks has returned
StartCommit(running, n, cfg) ==
    [isRunning |-> TRUE,
     timers |-> IF cfg.rebalanceFrequency = "realtime" THEN n + 1 ELSE n]

\* performSafetyChecks: getMarketAnalysis answers or throws; then start()
StartAnalysis(p) ==
    /\ inv[p].pc = "st_analysis"
    /\ \/ /\ inv' = [inv EXCEPT ![p] =
                       [Returned(Started) EXCEPT !.warned = inv[p].warned]]
          /\ isRunning' = StartCommit(isRunning, timers, config).isRunning
          /\ timers' = StartCommit(isRunning, timers, config).timers
       \/ /\ inv' = [inv EXCEPT ![p] = Returned(SafetyCheckFailed)]
          /\ UNCHANGED <<isRunning, timers>>
    /\ UNCHANGED <<dailyTrades, lastTradeDate, performanceMetrics, config,
                   today, em, historyVars, risk, calc>>

Stop ==
    /\ isRunning' = FALSE
    /\ UNCHANGED <<dailyTrades, lastTradeDate, performanceMetrics, config,
                   timers, today, inv, em, historyVars, risk, calc>>

\* updateConfiguration(newConfig)
UpdateConfigurationWith(newConfig) ==
    /\ config' = MergeConfig(config, newConfig)
    /\ lastUpdate' = newConfig
    /\ UNCHANGED <<isRunning, dailyTrades, lastTradeDate, performanceMetrics,
                   timers, today, inv, em, submittedToday, runs, risk, calc>>

UpdateConfiguration == \E newConfig \in ConfigUpdates : UpdateConfigurationWith(newConfig)

\* the calendar date changes
Midnight ==
    /\ today < MaxDay
    /\ today' = today + 1
    /\ submittedToday' = 0
    /\ UNCHANGED <<engineVars, inv, em, runs, lastUpdate, risk, calc>>


\* ------------------------------------------------- executeRebalancing
RebalanceRejected == Error("Trading engine is not running")

\* the guard that opens executeRebalancing: it goes on when isRunning
RebalanceAdmitsAlways(running) == TRUE
RebalanceAdmits(running) == running

\* the entry of executeRebalancing, up to its first await
RebalanceEnter(p) ==
    /\ inv[p].pc = "idle"
    /\ IF RebalanceAdmits(isRunning)
         THEN /\ runs < MaxRuns
              /\ runs' = runs + 1
              /\ inv' = [inv EXCEPT ![p] = [Idle EXCEPT !.pc = "rb_balance",
                                  !.entryThreshold = config.confidenceThreshold]]
         ELSE /\ inv' = [inv EXCEPT ![p] = Returned(RebalanceRejected)]
              /\ UNCHANGED runs
    /\ UNCHANGED <<engineVars, today, em, submittedToday, lastUpdate, risk, calc>>

\* step 1: getAccountBalance answers or throws
RbBalance(p) ==
    /\ inv[p].pc = "rb_balance"
    /\ \/ \E a \in Accounts :
            inv' = [inv EXCEPT ![p].currentBalance = a, ![p].pc = "rb_analysis"]
       \/ inv' = [inv EXCEPT ![p] = Returned(Error("Balance unavailable"))]
    /\ UNCHANGED <<engineVars, today, em, historyVars, risk, calc>>

\* the locals with which the trade batch goes on to its next decision, or
\* with which executeRebalancing returns the results
BatchNext(l) ==
    IF l.idx < Len(l.validDecisions)
      THEN [l EXCEPT !.idx = l.idx + 1,
                     !.decision = l.validDecisions[l.idx + 1],
                     !.esBalance = NoAccount, !.order = NoOrder,
                     !.pc = "es_balance"]
      ELSE [Returned(Results(l.results)) EXCEPT
                        !.validDecisions = l.validDecisions,
                        !.filterThreshold = l.filterThreshold,
                        !.decisions = l.decisions]

\* steps 3 to 5 up to the first await: generateTradingDecisions,
\* filterDecisionsByRisk and the entry of executeTradingDecisions
FilterAndBegin(p, sigs) ==
    LET l == inv[p]
        decisions == generateTradingDecisions(sigs, l.currentBalance, l.analysis, config)
        date == DailyReset(dailyTrades, lastTradeDate, today)
        valid == filterDecisionsLoop(decisions, date.dailyTrades, config)
    IN /\ dailyTrades' = date.dailyTrades
       /\ lastTradeDate' = date.lastTradeDate
       /\ inv' = [inv EXCEPT ![p] =
                    BatchNext([Idle EXCEPT !.validDecisions = valid,
                                           !.filterThreshold = config.confidenceThreshold,
                                           !.decisions = decisions])]

\* step 2: getMarketAnalysis answers or throws, then generateAISignals
\* starts its loop over the target symbols
RbAnalysis(p) ==
    /\ inv[p].pc = "rb_analysis"
    /\ \/ /\ \E s \in Sentiments :
               IF Len(config.targetSymbols) > 0
                 THEN /\ inv' = [inv EXCEPT ![p].analysis = s,
                                            ![p].targetSymbols = config.targetSymbols,
                                            ![p].sigIdx = 1,
                                            ![p].pc = "rb_signals"]
                      /\ UNCHANGED <<dailyTrades, lastTradeDate>>
                 ELSE FilterAndBegin(p, << >>)
       \/ /\ inv' = [inv EXCEPT ![p] = Returned(Error("Analysis unavailable"))]
          /\ UNCHANGED <<dailyTrades, lastTradeDate>>
    /\ UNCHANGED <<isRunning, performanceMetrics, config, timers, today, em,
                   submittedToday, runs, lastUpdate, risk, calc>>

\* the signals after the prediction of one symbol: confidence is the
\* prediction's, or -1 when predictPrice threw or gave no prediction
AddSignal(signals, symbol, confidence, cfg) ==
    IF confidence >= 0 /\ confidence >= cfg.confidenceThreshold
      THEN Append(signals, [symbol |-> symbol, confidence |-> confidence])
      ELSE signals

\* the index at which the loop of generateAISignals goes on after the
\* prediction of the symbol at sigIdx answered or threw
NextSymbolIndexBreak(sigIdx, n, confidence) ==
    IF confidence = -1 THEN n + 1 ELSE sigIdx + 1
NextSymbolIndex(sigIdx, n, confidence) == sigIdx + 1

\* generateAISignals: predictPrice of one symbol answers or throws
RbPredict(p) ==
    /\ inv[p].pc = "rb_signals"
    /\ \E c \in Confidences \cup {-1} :
         LET l == inv[p]
             sigs == AddSignal(l.signals, l.targetSymbols[l.sigIdx], c, config)
             next == NextSymbolIndex(l.sigIdx, Len(l.targetSymbols), c)
         IN IF next <= Len(l.targetSymbols)
              THEN /\ inv' = [inv EXCEPT ![p].signals = sigs, ![p].sigIdx = next,
                                         ![p].predictions = Append(l.predictions, c)]
                   /\ UNCHANGED <<dailyTrades, lastTradeDate>>
              ELSE FilterAndBegin(p, sigs)
    /\ UNCHANGED <<isRunning, performanceMetrics, config, timers, today, em,
                   submittedToday, runs, lastUpdate, risk, calc>>


\* --------------------------------- executeTradingDecisions, one decision
InSweep(l) == l.sweepStep > 0

\* the catch block of executeTradingDecisions: record the failure and go
\* on with the next decision
BatchCatchBreak(l, msg) ==
    [Returned(Results(l.results)) EXCEPT
        !.validDecisions = l.validDecisions,
        !.filterThreshold = l.filterThreshold]
BatchCatchRethrow(l, msg) == Returned(Error(msg))
BatchCatch(l, msg) ==
    BatchNext([l EXCEPT !.results =
                 Append(l.results, TradingResult(l.decision, FALSE, msg))])

\* executeSingleTrade returned a result to executeTradingDecisions
BatchReturn(l, result) ==
    [l EXCEPT !.results = Append(l.results, result),
              !.esBalance = NoAccount, !.order = NoOrder, !.pc = "rb_delay"]

\* this.dailyTrades++ and this.performanceMetrics.totalTrades++
CountTradeAlways(n, result) == n + 1
CountTrade(n, result) == IF result.executed THEN n + 1 ELSE n

\* checkStopLossAndTakeProfit goes on after a forced sell returned
SweepNext(l) ==
    LET k == NextTrigger(l.sweepBalance.positions, l.sweepStep + 1)
    IN IF k = 0
         THEN [Idle EXCEPT !.pc = "mon_need"]
         ELSE [l EXCEPT !.sweepStep = k,
                        !.decision = SweepDecision(l.sweepBalance.positions, k),
                        !.esBalance = NoAccount, !.order = NoOrder,
                        !.pc = "es_balance"]

\* executeSingleTrade throws: in a batch the catch block takes it; in a
\* sweep it leaves checkStopLossAndTakeProfit and ends the monitor callback
EsThrow(p, msg) ==
    /\ inv' = [inv EXCEPT ![p] =
                 IF InSweep(inv[p]) THEN Idle
                 ELSE BatchCatch(inv[p], msg)]
    /\ UNCHANGED <<dailyTrades, performanceMetrics>>

\* executeSingleTrade returns a result
EsReturnCountsSweep(p, result) ==
    /\ inv' = [inv EXCEPT ![p] = IF InSweep(inv[p]) THEN SweepNext(inv[p])
                                 ELSE BatchReturn(inv[p], result)]
    /\ dailyTrades' = CountTrade(dailyTrades, result)
    /\ performanceMetrics' =
         [performanceMetrics EXCEPT
            !.totalTrades = CountTrade(performanceMetrics.totalTrades, result)]
EsReturn(p, result) ==
    IF InSweep(inv[p])
      THEN /\ inv' = [inv EXCEPT ![p] = SweepNext(inv[p])]
           /\ UNCHANGED <<dailyTrades, performanceMetrics>>
      ELSE /\ inv' = [inv EXCEPT ![p] = BatchReturn(inv[p], result)]
           /\ dailyTrades' = CountTrade(dailyTrades, result)
           /\ performanceMetrics' =
                [performanceMetrics EXCEPT
                   !.totalTrades = CountTrade(performanceMetrics.totalTrades, result)]

\* executeSingleTrade: getAccountBalance answers or throws
EsBalance(p) ==
    /\ inv[p].pc = "es_balance"
    /\ \/ /\ \E a \in Accounts :
               inv' = [inv EXCEPT ![p].esBalance = a, ![p].pc = "es_price"]
          /\ UNCHANGED <<dailyTrades, performanceMetrics>>
       \/ EsThrow(p, "Balance unavailable")
    /\ UNCHANGED <<isRunning, lastTradeDate, config, timers, today, em, historyVars, risk, calc>>

\* executeSingleTrade: getRealTimePrice answers or throws; with a quantity
\* the order is built and placeOrder is called
EsPrice(p) ==
    /\ inv[p].pc = "es_price"
    /\ \/ \E price \in Prices :
            LET l == inv[p]
                quantity == TradeQuantity(l.esBalance, l.decision, price)
            IN IF quantity = 0
                 THEN /\ EsReturn(p, TradingResult(l.decision, FALSE,
                                                   "No quantity to trade"))
                      /\ UNCHANGED submittedToday
                 ELSE /\ inv' = [inv EXCEPT ![p].order = StockOrder(l.decision, quantity),
                                            ![p].esBalance = NoAccount,
                                            ![p].sinceSubmit =
                                               IF InSweep(l) THEN @ ELSE "nodelay",
                                            ![p].pc = "es_order"]
                      /\ submittedToday' =
                           IF InSweep(l) THEN submittedToday ELSE submittedToday + 1
                      /\ UNCHANGED <<dailyTrades, performanceMetrics>>
       \/ /\ EsThrow(p, "No price data available from any broker")
          /\ UNCHANGED submittedToday
    /\ UNCHANGED <<isRunning, lastTradeDate, config, timers, today, em, runs, lastUpdate, risk, calc>>

\* executeSingleTrade: placeOrder answers or throws
EsOrder(p) ==
    /\ inv[p].pc = "es_order"
    /\ \/ EsReturn(p, TradingResult(inv[p].decision, TRUE, "none"))
       \/ EsThrow(p, "Order rejected")
    /\ UNCHANGED <<isRunning, lastTradeDate, config, timers, today, em, historyVars, risk, calc>>

\* the inter-trade delay elapses
RbDelay(p) ==
    /\ inv[p].pc = "rb_delay"
    /\ inv' = [inv EXCEPT ![p] = BatchNext([inv[p] EXCEPT !.sinceSubmit =
                                   IF @ = "nodelay" THEN "delay" ELSE @])]
    /\ UNCHANGED <<engineVars, today, em, historyVars, risk, calc>>

\* the caller takes what the invocation returned or threw
Respond(p) ==
    /\ inv[p].pc = "returned"
    /\ inv' = [inv EXCEPT ![p] = Idle]
    /\ UNCHANGED <<engineVars, today, em, historyVars, risk, calc>>

\* ---------------------------------------------- startRealTimeMonitoring
\* the interval fires: the callback up to its first await
MonitorTick(m) ==
    /\ inv[m].pc = "idle"
    /\ timers > 0
    /\ IF isRunning
         THEN /\ inv' = [inv EXCEPT ![m] = [Idle EXCEPT !.pc = "mon_analysis"]]
              /\ UNCHANGED timers
         ELSE /\ timers' = timers - 1
              /\ inv' = [inv EXCEPT ![m] = Idle]
    /\ UNCHANGED <<isRunning, dailyTrades, lastTradeDate, performanceMetrics,
                   config, today, em, historyVars, risk, calc>>

\* getMarketAnalysis answers or throws; then checkStopLossAndTakeProfit
MonAnalysis(m) ==
    /\ inv[m].pc = "mon_analysis"
    /\ \/ inv' = [inv EXCEPT ![m].pc = "sw_balance"]
       \/ inv' = [inv EXCEPT ![m] = Idle]
    /\ UNCHANGED <<engineVars, today, em, historyVars, risk, calc>>

\* checkStopLossAndTakeProfit: getAccountBalance answers or throws; the
\* loop runs to the first position that meets a condition
SweepBalance(m) ==
    /\ inv[m].pc = "sw_balance"
    /\ \/ \E a \in Accounts :
            inv' = [inv EXCEPT ![m] =
                      SweepNext([Idle EXCEPT !.sweepBalance = a])]
       \/ inv' = [inv EXCEPT ![m] = Idle]
    /\ UNCHANGED <<engineVars, today, em, historyVars, risk, calc>>

\* checkRebalancingNeed: getMarketAnalysis answers or throws, Math.random
\* decides, and executeRebalancing is entered
MonNeed(m) ==
    /\ inv[m].pc = "mon_need"
    /\ \/ /\ inv' = [inv EXCEPT ![m] = Idle]
          /\ UNCHANGED runs
       \/ /\ RebalanceAdmits(isRunning)
          /\ runs < MaxRuns
          /\ runs' = runs + 1
          /\ inv' = [inv EXCEPT ![m] = [Idle EXCEPT !.pc = "rb_balance",
                                  !.entryThreshold = config.confidenceThreshold]]
       \/ /\ ~RebalanceAdmits(isRunning)
          /\ inv' = [inv EXCEPT ![m] = Returned(RebalanceRejected)]
          /\ UNCHANGED runs
    /\ UNCHANGED <<engineVars, today, em, submittedToday, lastUpdate, risk, calc>>


\* ------------------------------------------------ EmergencyResponseSystem
\* Math.floor(position.quantity * reductionRatio), reductionRatio 0.5
ReduceQuantityCeil(position) == (position.quantity + 1) \div 2
ReduceQuantity(position) == position.quantity \div 2

\* a snapshot with a position of one share, and the snapshots handed to
\* handleEmergency
AcctSmall ==
    [totalAssets |-> 1000, cashBalance |-> 245, stockValue |-> 755,
     positions |-> << Pos("A", 5, 40, 0), Pos("B", 1, 55, 0), Pos("C", 10, 50, 0) >>]
EmAccounts == Accounts \cup {AcctSmall}

\* haltTrading only logs: the engine's isRunning is what it was
haltTrading(running) == running

\* where handleEmergency is suspended next, from breaker i and position j
\* on: at the placeOrder of a position, at haltTrading, or not at all
RECURSIVE EmNext(_, _, _, _)
EmNext(triggered, balance, i, j) ==
    IF i > Len(triggered) THEN [pc |-> "idle", i |-> 0, j |-> 0]
    ELSE IF triggered[i].action = "halt_trading"
      THEN [pc |-> "em_halt", i |-> i, j |-> 0]
    ELSE IF j > Len(balance.positions) THEN EmNext(triggered, balance, i + 1, 1)
    ELSE IF /\ triggered[i].action = "reduce_position"
            /\ ReduceQuantity(balance.positions[j]) = 0
      THEN EmNext(triggered, balance, i, j + 1)
    ELSE [pc |-> "em_order", i |-> i, j |-> j]

EmOrderOf(breaker, position) ==
    [symbol |-> position.symbol, orderType |-> "sell", orderMethod |-> "market",
     quantity |-> IF breaker.action = "emergency_exit"
                    THEN position.quantity ELSE ReduceQuantity(position)]

\* the locals of handleEmergency when it goes on from breaker i, position j
EmGoto(l, i, j) ==
    LET n == EmNext(l.triggered, l.balance, i, j)
    IN IF n.pc = "idle"
         THEN [EmIdle EXCEPT !.ret = Ended, !.triggered = l.triggered,
                             !.balance = l.balance, !.log = l.log,
                             !.dispatched = Len(l.triggered)]
         ELSE [l EXCEPT !.pc = n.pc, !.i = n.i, !.j = n.j,
                        !.dispatched = n.i,
                        !.order = IF n.pc = "em_order"
                                    THEN EmOrderOf(l.triggered[n.i], l.balance.positions[n.j])
                                    ELSE NoOrder]

\* handleEmergency(breakers, balance, tradingManager) up to its first await
HandleEmergency ==
    /\ em.pc = "idle"
    /\ \E t \in [1..3 -> BOOLEAN], a \in EmAccounts :
         em' = EmGoto([EmIdle EXCEPT
                         !.triggered = SelectSeq(Breakers(t), LAMBDA b : b.triggered),
                         !.balance = a], 1, 1)
    /\ UNCHANGED <<engineVars, today, inv, historyVars, risk, calc>>

\* the placeOrder call under way, added to the log with its outcome
EmLogged(l, ok) ==
    [l EXCEPT !.log = Append(l.log, [breaker |-> l.i, order |-> l.order, ok |-> ok])]

\* the catch block of emergencyExit and of reducePositions: the loop goes
\* on with the next position
EmCatchBreak(l) == EmGoto(l, l.i + 1, 1)
EmCatchThrow(l) ==
    [EmIdle EXCEPT !.ret = Error("Order rejected"), !.triggered = l.triggered,
                   !.balance = l.balance, !.log = l.log,
                   !.dispatched = l.dispatched]
EmCatch(l) == EmGoto(l, l.i, l.j + 1)

\* placeOrder of emergencyExit or reducePositions answers or throws; both
\* go on with the next position
EmOrder ==
    /\ em.pc = "em_order"
    /\ \/ em' = EmGoto(EmLogged(em, TRUE), em.i, em.j + 1)
       \/ em' = EmCatch(EmLogged(em, FALSE))
    /\ UNCHANGED <<engineVars, today, inv, historyVars, risk, calc>>

\* haltTrading returns
EmHalt ==
    /\ em.pc = "em_halt"
    /\ isRunning' = haltTrading(isRunning)
    /\ em' = EmGoto(em, em.i + 1, 1)
    /\ UNCHANGED <<dailyTrades, lastTradeDate, performanceMetrics, config,
                   timers, today, inv, historyVars, risk, calc>>

\* ------------------------------------------------- the risk-metrics request
\* GET /api/trading/risk-metrics from the balance on: calculateRiskMetrics,
\* generateRiskAlerts, checkCircuitBreakers
RiskMetricsRequest ==
    /\ Len(risk.performanceHistory) < MaxHistory
    /\ \E balance \in RiskBalances, var95 \in {200, 201}, var99 \in Var99s,
          liquidityRatio \in {29, 30}, avgCorrelation \in {70, 71} :
         LET concentration == calculateConcentrationRisk(balance)
             dd == calculateDrawdownMetrics(risk.performanceHistory,
                                            risk.maxHistoricalValue, balance)
             metrics == [var95 |-> var95, var99 |-> var99,
                         leverage |-> calculateLeverage(balance),
                         concentration |->
                           [f \in {"maxSinglePosition", "sectorConcentration",
                                   "topPositions"} |-> concentration[f]],
                         liquidity |-> [liquidityRatio |-> liquidityRatio],
                         correlation |-> [avgCorrelation |-> avgCorrelation],
                         drawdown |-> dd.drawdown]
         IN risk' = [risk EXCEPT
                       !.performanceHistory = dd.performanceHistory,
                       !.maxHistoricalValue = dd.maxHistoricalValue,
                       !.fetched = balance,
                       !.balance = [balance EXCEPT !.positions = concentration.positions],
                       !.metrics = metrics,
                       !.alerts = generateRiskAlerts(metrics, risk.riskLimits),
                       !.breakers = checkCircuitBreakers(metrics, risk.riskLimits)]
    /\ UNCHANGED <<engineVars, today, inv, em, historyVars, calc>>

\* --------------------------------------------------------- specifications
\* the engine driven on demand by concurrent requests
Next ==
    \/ \E p \in Callers : StartEnter(p)
    \/ \E p \in Callers : StartBalance(p)
    \/ \E p \in Callers : StartAnalysis(p)
    \/ Stop
    \/ UpdateConfiguration
    \/ Midnight
    \/ \E p \in Callers : RebalanceEnter(p)
    \/ \E p \in Callers : RbBalance(p)
    \/ \E p \in Callers : RbAnalysis(p)
    \/ \E p \in Callers : RbPredict(p)
    \/ \E p \in Callers : EsBalance(p)
    \/ \E p \in Callers : EsPrice(p)
    \/ \E p \in Callers : EsOrder(p)
    \/ \E p \in Callers : RbDelay(p)
    \/ \E p \in Callers : Respond(p)

Spec == Init /\ [][Next]_vars

\* the engine with rebalanceFrequency realtime: one request at a time and
\* the monitoring interval
InitRT == InitWith(1, "realtime", <<"A">>)

RTProcs == {"c1"} \cup Monitors

NextRT ==
    \/ StartEnter("c1")
    \/ StartBalance("c1")
    \/ StartAnalysis("c1")
    \/ Stop
    \/ RebalanceEnter("c1")
    \/ \E m \in Monitors : MonitorTick(m)
    \/ \E m \in Monitors : MonAnalysis(m)
    \/ \E m \in Monitors : SweepBalance(m)
    \/ \E m \in Monitors : MonNeed(m)
    \/ \E p \in RTProcs : RbBalance(p)
    \/ \E p \in RTProcs : RbAnalysis(p)
    \/ \E p \in RTProcs : RbPredict(p)
    \/ \E p \in RTProcs : EsBalance(p)
    \/ \E p \in RTProcs : EsPrice(p)
    \/ \E p \in RTProcs : EsOrder(p)
    \/ \E p \in RTProcs : RbDelay(p)
    \/ \E p \in RTProcs : Respond(p)

SpecRT == InitRT /\ [][NextRT]_vars

\* concurrent requests to an engine with one target symbol
InitConc == InitWith(1, "daily", <<"A">>)

NextConc ==
    \/ \E p \in Requests : StartEnter(p)
    \/ \E p \in Requests : StartBalance(p)
    \/ \E p \in Requests : StartAnalysis(p)
    \/ Stop
    \/ \E p \in Requests : RebalanceEnter(p)
    \/ \E p \in Requests : RbBalance(p)
    \/ \E p \in Requests : RbAnalysis(p)
    \/ \E p \in Requests : RbPredict(p)
    \/ \E p \in Requests : EsBalance(p)
    \/ \E p \in Requests : EsPrice(p)
    \/ \E p \in Requests : EsOrder(p)
    \/ \E p \in Requests : RbDelay(p)
    \/ \E p \in Requests : Respond(p)

SpecConc == InitConc /\ [][NextConc]_vars

\* the engine and the emergency responder
NextEm ==
    \/ StartEnter("c1")
    \/ StartBalance("c1")
    \/ StartAnalysis("c1")
    \/ Respond("c1")
    \/ Stop
    \/ HandleEmergency
    \/ EmOrder
    \/ EmHalt

SpecEm == Init /\ [][NextEm]_vars

\* the configuration under a sequence of updateConfiguration calls
NextCfg == \E newConfig \in ConfigPartials : UpdateConfigurationWith(newConfig)

SpecCfg == Init /\ [][NextCfg]_vars

\* one caller's cycles over three target symbols, the configuration fixed
NextSig ==
    \/ StartEnter("c1")
    \/ StartBalance("c1")
    \/ StartAnalysis("c1")
    \/ RebalanceEnter("c1")
    \/ RbBalance("c1")
    \/ RbAnalysis("c1")
    \/ RbPredict("c1")
    \/ EsBalance("c1")
    \/ EsPrice("c1")
    \/ EsOrder("c1")
    \/ RbDelay("c1")
    \/ Respond("c1")

SpecSig == InitWith(2, "daily", <<"A", "B", "C">>) /\ [][NextSig]_vars

\* the risk engine under a sequence of risk-metrics requests, for each
\* choice of limits
InitRisk ==
    /\ EngineInit(1, "daily", Symbols)
    /\ calc = NoCall
    /\ risk \in {RiskSystem(limits) : limits \in LimitChoices}

NextRisk == RiskMetricsRequest

SpecRisk == InitRisk /\ [][NextRisk]_vars

\* calls of generateTradingDecisions on the signals, snapshot and market
\* sentiment of a cycle
AcctBand ==
    [totalAssets |-> 1000, cashBalance |-> 870, stockValue |-> 130,
     positions |-> << Pos("A", 19, 5, 0), Pos("B", 7, 5, 0) >>]
MaxSignals == 3
\* the signals of a cycle: distinct symbols in any order
DecisionSignals ==
    UNION {{sigs \in [1..n -> [symbol : {"A", "B", "C"},
                               confidence : {40, 80, 100}]] :
              \A i, j \in 1..n : i # j => sigs[i].symbol # sigs[j].symbol} :
           n \in 0..MaxSignals}

DecisionsCall ==
    /\ calc = NoCall
    /\ \E signals \in DecisionSignals,
          balance \in {AcctCash, AcctHeld, AcctBand},
          sentiment \in {"bullish", "neutral", "bearish"} :
         calc' = [fn |-> "generateTradingDecisions",
                  signals |-> signals, balance |-> balance,
                  sentiment |-> sentiment,
                  answer |-> generateTradingDecisions(signals, balance,
                                                      sentiment, config)]
    /\ UNCHANGED <<engineVars, today, inv, em, historyVars, risk>>

SpecDecisions == Init /\ [][DecisionsCall]_vars

\* the engine and the risk system constructed with the same configuration
\* object: updateConfiguration calls that change riskLimits, and
\* risk-metrics requests
NextLive ==
    \/ \E newConfig \in {c \in ConfigPartials : "riskLimits" \in DOMAIN c} :
          UpdateConfigurationWith(newConfig)
    \/ RiskMetricsRequest

SpecLive == Init /\ [][NextLive]_vars

\* calls of calculateTargetWeight: confidence from 0 to 1 in hundredths,
\* the three known sentiments and an unknown one, maxPositionSize 5%, 10%
\* or 20%
TargetWeightCall ==
    /\ calc = NoCall
    /\ \E confidence \in 0..100,
          sentiment \in {"bullish", "neutral", "bearish", "volatile"},
          size \in {5, 10, 20} :
         LET cfg == [config EXCEPT !.riskLimits.maxPositionSize = size]
         IN calc' = [fn |-> "calculateTargetWeight",
                     confidence |-> confidence, sentiment |-> sentiment,
                     maxPositionSize |-> size,
                     answer |-> calculateTargetWeight(confidence, sentiment, cfg)]
    /\ UNCHANGED <<engineVars, today, inv, em, historyVars, risk>>

SpecTarget == Init /\ [][TargetWeightCall]_vars

\* calls of calculatePortfolioVaR, whatever the trials draw
VaRCall ==
    /\ calc = NoCall
    /\ \E balance \in {AcctOne, AcctHeld, RiskHeld}, k1 \in 0..2, k2 \in 0..2,
          off \in 0..(NumSimulations - 1) :
         LET draws == DrawsOf(k1, k2, off, Len(balance.positions))
         IN calc' = [fn |-> "calculatePortfolioVaR",
                     balance |-> balance,
                     answer |-> calculatePortfolioVaR(balance, draws)]
    /\ UNCHANGED <<engineVars, today, inv, em, historyVars, risk>>

SpecVaR == Init /\ [][VaRCall]_vars


\* -------------------------------------------------------------- properties
RebalancePcs ==
    {"rb_balance", "rb_analysis", "rb_signals", "es_balance", "es_price",
     "es_order", "rb_delay"}
BatchPcs == {"es_balance", "es_price", "es_order", "rb_delay"}
InRebalancing(l) == l.pc \in RebalancePcs /\ ~InSweep(l)
InBatch(l) == l.pc \in BatchPcs /\ ~InSweep(l)
ReturnedResults(l) == l.pc = "returned" /\ l.ret.kind = "results"

\* C1: the trade batches of executeRebalancing never call placeOrder more
\* than maxTradesPerDay times within one calendar date.
C1_DailyOrderBound == submittedToday <= config.maxTradesPerDay

\* C2: while one invocation of executeRebalancing executes its trade batch,
\* no other invocation of executeRebalancing is in progress.
C2_NonReentrant ==
    \A p, q \in Procs :
        (p # q /\ InBatch(inv[p])) => ~InRebalancing(inv[q])

\* C3: at most one placeOrder call of the engine is in flight at any time,
\* whether it comes from a trade batch or from the monitor's sweep.
C3_OneOrderInFlight ==
    Cardinality({p \in Procs : inv[p].pc = "es_order"}) <= 1

\* C4: the trade batch records exactly one TradingResult per filtered
\* decision, in input order, whatever submissions fail: a failure is
\* recorded as executed = FALSE with an error message and the batch goes on
\* to the decisions after it.
C4_OneResultPerDecision ==
    \A p \in Procs :
        LET l == inv[p]
            C4_ResultsFollow(results, decisions) ==
                \A i \in DOMAIN results :
                    /\ i <= Len(decisions)
                    /\ results[i].decision = decisions[i]
                    /\ results[i].executed <=> results[i].errorMessage = "none"
        IN /\ InBatch(l) =>
                /\ C4_ResultsFollow(l.results, l.validDecisions)
                /\ Len(l.results) = IF l.pc = "rb_delay" THEN l.idx ELSE l.idx - 1
           /\ ReturnedResults(l) =>
                /\ C4_ResultsFollow(l.ret.results, l.validDecisions)
                /\ Len(l.ret.results) = Len(l.validDecisions)
\* a batch of two decisions returned: the first submission was rejected and
\* the second was executed
C4_Witness ==
    \E p \in Procs :
        /\ ReturnedResults(inv[p])
        /\ Len(inv[p].ret.results) = 2
        /\ inv[p].ret.results[1].errorMessage = "Order rejected"
        /\ inv[p].ret.results[2].executed

\* C5: when handleEmergency has dispatched halt_trading, the engine's
\* isRunning is false.
C5_HaltStopsEngine ==
    [][(em.pc = "em_halt" /\ em' # em) => ~isRunning']_vars

\* C6: dailyTrades is reset to 0 exactly when filterDecisionsByRisk runs on
\* a date other than lastTradeDate, which then becomes that date; a filter
\* run on the same date resets nothing, and no other step lowers dailyTrades
\* or changes lastTradeDate.
C6_DailyResetOncePerDate ==
    [][LET C6_FilterStep ==
             \E p \in Procs :
                 /\ inv[p].pc \in {"rb_analysis", "rb_signals"}
                 /\ \/ inv'[p].pc = "es_balance"
                    \/ inv'[p].pc = "returned" /\ inv'[p].ret.kind = "results"
       IN
       /\ C6_FilterStep =>
            IF lastTradeDate # today
              THEN lastTradeDate' = today /\ dailyTrades' = 0
              ELSE lastTradeDate' = lastTradeDate /\ dailyTrades' = dailyTrades
       /\ ~C6_FilterStep =>
            lastTradeDate' = lastTradeDate /\ dailyTrades' >= dailyTrades
      ]_vars
\* on the second date the counter was reset after trades of the first date
C6_Witness ==
    /\ today = 2
    /\ lastTradeDate = 2
    /\ dailyTrades = 0
    /\ performanceMetrics.totalTrades > 0

\* C7: no executed result of executeRebalancing carries a decision whose
\* confidence is below the confidenceThreshold that the cycle's filter read.
C7_ExecutedAboveThreshold ==
    \A p \in Procs :
        LET l == inv[p]
            C7_ExecutedAbove(results, threshold) ==
                \A i \in DOMAIN results :
                    results[i].executed =>
                        results[i].decision.confidence >= threshold
        IN /\ InBatch(l) => C7_ExecutedAbove(l.results, l.filterThreshold)
           /\ ReturnedResults(l) => C7_ExecutedAbove(l.ret.results, l.filterThreshold)
\* a decision whose confidence equals the threshold the filter read was
\* executed
C7_Witness ==
    \E p \in Procs :
        /\ ReturnedResults(inv[p])
        /\ inv[p].filterThreshold = 80
        /\ \E i \in DOMAIN inv[p].ret.results :
              /\ inv[p].ret.results[i].executed
              /\ inv[p].ret.results[i].decision.confidence = 80

\* C8: the order that checkStopLossAndTakeProfit submits for a position
\* with profitLossRate <= -0.05 is a sell of the full held quantity.
C8_StopLossSellsAll ==
    \A p \in Procs :
        LET l == inv[p]
        IN (InSweep(l) /\ l.sweepStep % 2 = 1 /\ l.pc = "es_order") =>
              /\ l.order.orderType = "sell"
              /\ l.order.quantity =
                   SweepPosition(l.sweepBalance.positions, l.sweepStep).quantity

\* C9: the order that checkStopLossAndTakeProfit submits for a position
\* with profitLossRate >= 0.20 is a sell of half the held quantity.
C9_TakeProfitSellsHalf ==
    \A p \in Procs :
        LET l == inv[p]
        IN (InSweep(l) /\ l.sweepStep % 2 = 0 /\ l.pc = "es_order") =>
              /\ l.order.orderType = "sell"
              /\ 2 * l.order.quantity =
                   SweepPosition(l.sweepBalance.positions, l.sweepStep).quantity

\* C10: a start() whose safety check throws leaves isRunning false and
\* registers no monitoring timer; a start() whose checks pass sets
\* isRunning, also when the cash ratio is below minCashRatio.
C10_StartSafety ==
    [][\A p \in Procs :
          /\ (inv[p].pc \in {"st_balance", "st_analysis"}
                 /\ inv'[p].pc = "returned") =>
                IF inv'[p].ret = SafetyCheckFailed
                  THEN ~isRunning' /\ timers' = timers
                  ELSE inv'[p].ret = Started /\ isRunning'
          /\ (inv[p].pc = "st_balance" /\ inv'[p].warned) =>
                inv'[p].pc = "st_analysis"
      ]_vars
\* the engine was started with a cash ratio below minCashRatio
C10_Witness ==
    \E p \in Procs :
        /\ inv[p].pc = "returned"
        /\ inv[p].ret = Started
        /\ inv[p].warned
        /\ isRunning
        /\ timers > 0

\* C12: checkCircuitBreakers answers exactly three breakers, Emergency VaR
\* (emergency_exit), Drawdown (halt_trading) and Leverage (reduce_position),
\* in this order, whatever the metrics and the limits are.
C12_ThreeFixedBreakers ==
    risk.performanceHistory # << >> =>
        /\ Len(risk.breakers) = 3
        /\ risk.breakers[1].name = "Emergency VaR Breaker"
        /\ risk.breakers[1].action = "emergency_exit"
        /\ risk.breakers[2].name = "Drawdown Breaker"
        /\ risk.breakers[2].action = "halt_trading"
        /\ risk.breakers[3].name = "Leverage Breaker"
        /\ risk.breakers[3].action = "reduce_position"
\* the breakers of a request that triggers the drawdown breaker only
C12_Witness ==
    /\ Len(risk.breakers) = 3
    /\ ~risk.breakers[1].triggered
    /\ risk.breakers[2].triggered
    /\ ~risk.breakers[3].triggered

\* C13: each breaker is triggered exactly when its own value strictly
\* exceeds its own threshold: var99 > maxDailyLoss * 20000, currentDrawdown
\* > maxDrawdown * 2, leverage > maxLeverage * 1.5; a value equal to the
\* threshold does not trigger, and leverage 0.8 triggers with maxLeverage
\* 0.5 and not with maxLeverage 1.0.
C13_TriggeredIffExceeds ==
    risk.performanceHistory # << >> =>
        LET b == risk.balance
            peak == risk.maxHistoricalValue
            limits == risk.riskLimits
        IN /\ risk.breakers[1].triggered <=>
                risk.metrics.var99 > limits.maxDailyLoss * 200
           /\ risk.breakers[2].triggered <=>
                /\ peak > 0
                /\ (peak - b.totalAssets) * 100 > limits.maxDrawdown * 2 * peak
           /\ risk.breakers[3].triggered <=>
                /\ b.totalAssets > 0
                /\ b.stockValue * 200 > limits.maxLeverage * 3 * b.totalAssets
           /\ (b = Balance(1000, 800) /\ limits.maxLeverage = 100) =>
                ~risk.breakers[3].triggered
           /\ (b = Balance(1000, 800) /\ limits.maxLeverage = 50) =>
                risk.breakers[3].triggered
\* leverage 0.75 equals the threshold of maxLeverage 0.5 and does not
\* trigger, while the VaR breaker of the same request does
C13_Witness ==
    /\ risk.balance = Balance(1000, 750)
    /\ risk.riskLimits.maxLeverage = 50
    /\ Len(risk.breakers) = 3
    /\ risk.breakers[1].triggered
    /\ ~risk.breakers[3].triggered

\* C14: whenever the drawdown breaker of a request is triggered, the alerts
\* of the same request contain the emergency-level drawdown alert.
C14_BreakerImpliesAlert ==
    (risk.performanceHistory # << >> /\ risk.breakers[2].triggered) =>
        \E i \in DOMAIN risk.alerts : risk.alerts[i] = DrawdownAlert
\* a drawdown of 20% against maxDrawdown 5%: breaker and alert
C14_Witness ==
    /\ risk.riskLimits.maxDrawdown = 5
    /\ risk.maxHistoricalValue = 1000
    /\ risk.balance.totalAssets = 800
    /\ Len(risk.breakers) = 3
    /\ risk.breakers[2].triggered
    /\ \E i \in DOMAIN risk.alerts : risk.alerts[i] = DrawdownAlert

\* C18: the leverage metric is the number stockValue / totalAssets, and the
\* number 0 when totalAssets is 0.
C18_LeverageDefined ==
    risk.performanceHistory # << >> =>
        LET b == risk.balance
            leverage == risk.metrics.leverage
        IN /\ IsFinite(leverage)
           /\ leverage.num * b.totalAssets = b.stockValue * leverage.den
           /\ b.totalAssets = 0 => leverage.num = 0

\* C19: after every calculateRiskMetrics call the running peak is the
\* largest totalAssets seen, currentDrawdown is the number
\* (peak - total) / peak and not negative, and maxDrawdown is a number that
\* is at least every drawdown seen so far, the current one included.
C19_DrawdownHistory ==
    risk.performanceHistory # << >> =>
        LET history == risk.performanceHistory
            dd == risk.metrics.drawdown
            PeakAt(k) == CHOOSE v \in {history[j] : j \in 1..k} :
                            \A j \in 1..k : history[j] <= v
        IN /\ risk.maxHistoricalValue = PeakAt(Len(history))
           /\ IsFinite(dd.currentDrawdown)
           /\ dd.currentDrawdown.num >= 0
           /\ dd.currentDrawdown.num * risk.maxHistoricalValue =
                (risk.maxHistoricalValue - risk.balance.totalAssets)
                  * dd.currentDrawdown.den
           /\ IsFinite(dd.maxDrawdown)
           /\ \A k \in DOMAIN history :
                dd.maxDrawdown.num * PeakAt(k) >=
                  (PeakAt(k) - history[k]) * dd.maxDrawdown.den

\* C11: a rebalancing cycle is entered only while isRunning is true; an
\* executeRebalancing call made while it is false fails at once with
\* 'Trading engine is not running', fetching nothing and submitting no
\* order; stop() changes no invocation that is under way, so an order
\* submission in flight goes on.
C11_StopPreventsNewCycles ==
    [][/\ \A p \in Procs :
            /\ (~InRebalancing(inv[p]) /\ InRebalancing(inv'[p])) => isRunning
            /\ (~isRunning /\ inv[p].pc = "idle" /\ inv'[p].pc = "returned") =>
                  inv'[p].ret = RebalanceRejected
            /\ (~isRunning /\ ~InBatch(inv[p]) /\ ~InSweep(inv[p])) =>
                  submittedToday' <= submittedToday \/ inv'[p] = inv[p]
       /\ (isRunning /\ ~isRunning') => inv' = inv
      ]_vars
\* after stop() one request's order submission is still in flight and
\* another request's executeRebalancing has been rejected
C11_Witness ==
    /\ ~isRunning
    /\ \E p, q \in Procs :
         /\ inv[p].pc = "es_order"
         /\ inv[q].pc = "returned"
         /\ inv[q].ret = RebalanceRejected

\* C15: for a triggered emergency_exit breaker handleEmergency attempts,
\* for every position of the snapshot in snapshot order, a market sell of
\* the full held quantity; a rejected submission does not keep it from the
\* positions after it.
C15_ExitSellsEveryPosition ==
    \A i \in DOMAIN em.triggered :
        em.triggered[i].action = "emergency_exit" =>
            LET positions == em.balance.positions
                attempts == SelectSeq(em.log, LAMBDA e : e.breaker = i)
                n == IF em.pc = "idle" \/ i < em.i THEN Len(positions)
                     ELSE IF i = em.i THEN em.j - 1 ELSE 0
            IN /\ Len(attempts) = n
               /\ \A k \in 1..n :
                    attempts[k].order =
                      [symbol |-> positions[k].symbol, orderType |-> "sell",
                       orderMethod |-> "market", quantity |-> positions[k].quantity]
               /\ (em.pc = "em_order" /\ i = em.i) =>
                    /\ em.order.symbol = positions[em.j].symbol
                    /\ em.order.quantity = positions[em.j].quantity
\* the emergency exit of two positions is over: the first sell was rejected
\* and the second one was submitted all the same
C15_Witness ==
    /\ em.pc = "idle"
    /\ em.ret = Ended
    /\ Len(em.triggered) = 1
    /\ em.triggered[1].action = "emergency_exit"
    /\ Len(em.log) = 2
    /\ ~em.log[1].ok
    /\ em.log[2].ok

\* C16: a run of handleEmergency ends without an error after it has called
\* the action of every triggered breaker, whatever submissions were
\* rejected on the way.
C16_EveryBreakerDispatched ==
    /\ (em.pc = "idle" /\ em.ret # NoRet) =>
          /\ em.ret = Ended
          /\ em.dispatched = Len(em.triggered)
    /\ em.pc # "idle" =>
          /\ em.dispatched = em.i
          /\ \A k \in DOMAIN em.log : em.log[k].breaker <= em.i
\* every order of the emergency exit was rejected, and the two breakers
\* after it were handled
C16_Witness ==
    /\ em.pc = "idle"
    /\ em.ret = Ended
    /\ Len(em.triggered) = 3
    /\ em.dispatched = 3
    /\ \E k \in DOMAIN em.log : em.log[k].breaker = 1
    /\ \A k \in DOMAIN em.log : em.log[k].breaker = 1 => ~em.log[k].ok
    /\ \E k \in DOMAIN em.log : em.log[k].breaker = 3

\* C17: for a triggered reduce_position breaker the sells attempted are,
\* in snapshot order, floor(quantity * 0.5) shares of every position for
\* which this is not 0; a rejected submission does not keep it from the
\* positions after it.
C17_ReduceSellsHalf ==
    \A i \in DOMAIN em.triggered :
        em.triggered[i].action = "reduce_position" =>
            LET positions == em.balance.positions
                attempts == SelectSeq(em.log, LAMBDA e : e.breaker = i)
                n == IF em.pc = "idle" \/ i < em.i THEN Len(positions)
                     ELSE IF i = em.i THEN em.j - 1 ELSE 0
                sold == SelectSeq(SubSeq(positions, 1, n),
                                  LAMBDA q : q.quantity \div 2 > 0)
            IN /\ Len(attempts) = Len(sold)
               /\ \A k \in DOMAIN sold :
                    attempts[k].order =
                      [symbol |-> sold[k].symbol, orderType |-> "sell",
                       orderMethod |-> "market", quantity |-> sold[k].quantity \div 2]
\* positions of 5, 1 and 10 shares were reduced: 2 shares of the first were
\* rejected, the second got no order, 5 shares of the third were submitted
C17_Witness ==
    /\ em.pc = "idle"
    /\ em.ret = Ended
    /\ em.balance = AcctSmall
    /\ Len(em.triggered) = 1
    /\ em.triggered[1].action = "reduce_position"
    /\ Len(em.log) = 2
    /\ em.log[1].order.quantity = 2 /\ ~em.log[1].ok
    /\ em.log[2].order.quantity = 5 /\ em.log[2].ok

\* C20: updateConfiguration(newConfig) leaves a configuration in which
\* every supplied field has the supplied value and every other field has
\* the value it had before the call.
C20_UpdateSetsSuppliedFields ==
    [][(lastUpdate' # lastUpdate \/ config' # config) =>
          /\ DOMAIN config' = DOMAIN config
          /\ \A f \in DOMAIN config' :
               config'[f] = IF f \in DOMAIN lastUpdate'
                              THEN lastUpdate'[f] ELSE config[f]
      ]_vars
\* updateConfiguration({maxTradesPerDay: 3}) on a configuration whose
\* confidenceThreshold and rebalanceFrequency had been changed before
C20_Witness ==
    /\ lastUpdate = [maxTradesPerDay |-> 3]
    /\ config.maxTradesPerDay = 3
    /\ config.confidenceThreshold = 40
    /\ config.rebalanceFrequency = "realtime"

\* C21: a cycle suspended at an await uses, after an updateConfiguration
\* call, the confidenceThreshold it was entered with: its signal intake
\* admits only predictions at or above that threshold and its risk filter
\* runs with that threshold.
C21_CycleUsesEntryConfig ==
    [][\A p \in Procs :
         /\ (inv'[p].pc = "rb_signals") =>
                \A i \in 1..Len(inv'[p].signals) :
                    inv'[p].signals[i].confidence >= inv'[p].entryThreshold
         /\ (/\ inv[p].pc \in {"rb_analysis", "rb_signals"}
             /\ (inv'[p].pc \in BatchPcs \/ ReturnedResults(inv'[p])))
              => inv'[p].filterThreshold = inv[p].entryThreshold
      ]_vars

\* C22: in generateAISignals a prediction that fails for one target symbol
\* leaves out that symbol only: the loop goes on to the next symbol, and
\* the signals are exactly the symbols queried so far whose prediction
\* answered with a confidence at or above the threshold, in the order of
\* the target symbols.
C22_FailedPredictionSkipsSymbol ==
    [][\A p \in Procs :
         (/\ inv[p].pc = "rb_signals"
          /\ inv'[p] # inv[p]
          /\ inv[p].sigIdx < Len(inv[p].targetSymbols))
         => LET l == inv'[p]
                ok == {i \in 1..Len(l.predictions) :
                         /\ l.predictions[i] # -1
                         /\ l.predictions[i] >= config.confidenceThreshold}
            IN /\ l.pc = "rb_signals"
               /\ l.sigIdx = inv[p].sigIdx + 1
               /\ Len(l.predictions) = inv[p].sigIdx
               /\ Len(l.signals) = Cardinality(ok)
               /\ \A i \in ok :
                    l.signals[Cardinality({j \in ok : j <= i})] =
                        [symbol |-> l.targetSymbols[i],
                         confidence |-> l.predictions[i]]
      ]_vars
\* the prediction of A failed and that of B answered 0.8: B is a signal
\* and C is queried next
C22_Witness ==
    \E p \in Procs :
        /\ inv[p].pc = "rb_signals"
        /\ inv[p].sigIdx = 3
        /\ inv[p].predictions = <<-1, 80>>
        /\ inv[p].signals = <<[symbol |-> "B", confidence |-> 80]>>

\* C23: dailyTrades and totalTrades grow by one exactly when a trade batch
\* records a result with executed = true, so totalTrades counts the
\* executed results handed back; a result of a failed or zero-quantity
\* decision changes neither counter, and nothing else raises them.
C23_CountersCountExecuted ==
    [][LET Res(l) == IF ReturnedResults(l) THEN l.ret.results ELSE l.results
           Recorded(p) == /\ ~InSweep(inv[p])
                          /\ Len(Res(inv'[p])) = Len(Res(inv[p])) + 1
           Last(p) == Res(inv'[p])[Len(Res(inv'[p]))]
           Grown(p) == Recorded(p) /\ Last(p).executed
       IN /\ \A p \in Procs :
                Recorded(p) =>
                  /\ performanceMetrics'.totalTrades =
                        performanceMetrics.totalTrades
                          + (IF Last(p).executed THEN 1 ELSE 0)
                  /\ dailyTrades' =
                        dailyTrades + (IF Last(p).executed THEN 1 ELSE 0)
          /\ (performanceMetrics'.totalTrades # performanceMetrics.totalTrades)
                => \E p \in Procs : Grown(p)
          /\ (dailyTrades' > dailyTrades) => \E p \in Procs : Grown(p)
      ]_vars
\* a batch handed back a failed result and an executed one: one trade is
\* counted
C23_Witness ==
    \E p \in Procs :
        /\ ReturnedResults(inv[p])
        /\ Len(inv[p].ret.results) = 2
        /\ ~inv[p].ret.results[1].executed
        /\ inv[p].ret.results[2].executed
        /\ performanceMetrics.totalTrades = 1
        /\ dailyTrades = 1

\* C24: a cycle of executeRebalancing that was entered ends with an error
\* only when its first getAccountBalance or its getMarketAnalysis failed,
\* and then no order was submitted, no counter changed and isRunning is as
\* it was; from the signal intake and the trade batch the cycle only ever
\* returns results.
C24_CycleFailsOnlyAtFetch ==
    [][\A p \in Procs :
         (/\ InRebalancing(inv[p])
          /\ inv'[p].pc = "returned"
          /\ inv'[p].ret.kind = "error")
         => /\ inv[p].pc \in {"rb_balance", "rb_analysis"}
            /\ inv'[p].ret.error =
                  IF inv[p].pc = "rb_balance"
                    THEN "Balance unavailable" ELSE "Analysis unavailable"
            /\ inv[p].results = << >>
            /\ UNCHANGED <<isRunning, dailyTrades, lastTradeDate,
                           performanceMetrics, submittedToday>>
      ]_vars
\* the cycle of a running engine threw because getMarketAnalysis failed
C24_Witness ==
    \E p \in Procs :
        /\ inv[p].pc = "returned"
        /\ inv[p].ret = Error("Analysis unavailable")
        /\ isRunning
        /\ runs > 0
        /\ submittedToday = 0

\* C26: within one trade batch a placeOrder call is never made while the
\* inter-trade delay since the batch's previous placeOrder call has not
\* elapsed, whether that earlier submission succeeded or failed.
C26_DelayBetweenSubmissions ==
    [][\A p \in Procs :
         (/\ ~InSweep(inv[p])
          /\ inv[p].pc = "es_price"
          /\ inv'[p].pc = "es_order")
         => inv[p].sinceSubmit # "nodelay"
      ]_vars

\* C25: generateRiskAlerts applies its six rules independently of each
\* other: the alerts are, in the fixed order var, concentration, leverage,
\* drawdown, liquidity, correlation, one alert with the rule's fixed level
\* and category for exactly the rules whose condition holds (var95 >
\* maxDailyLoss * 10000, maxSinglePosition > maxPositionSize, leverage >
\* maxLeverage, currentDrawdown > maxDrawdown, liquidityRatio < 0.30,
\* avgCorrelation > 0.70).
C25_SixIndependentRules ==
    (risk.performanceHistory # << >>) =>
        LET m == risk.metrics
            limits == risk.riskLimits
            Gt(q, pct) == IF q.den = 0 THEN q.num > 0
                          ELSE q.num * 100 > pct * q.den
            rules ==
              << [level |-> "critical", category |-> "var",
                  holds |-> m.var95 > limits.maxDailyLoss * 100],
                 [level |-> "warning", category |-> "concentration",
                  holds |-> Gt(m.concentration.maxSinglePosition,
                               limits.maxPositionSize)],
                 [level |-> "critical", category |-> "leverage",
                  holds |-> Gt(m.leverage, limits.maxLeverage)],
                 [level |-> "emergency", category |-> "drawdown",
                  holds |-> Gt(m.drawdown.currentDrawdown, limits.maxDrawdown)],
                 [level |-> "warning", category |-> "liquidity",
                  holds |-> m.liquidity.liquidityRatio < 30],
                 [level |-> "info", category |-> "correlation",
                  holds |-> m.correlation.avgCorrelation > 70] >>
            fired == SelectSeq(rules, LAMBDA r : r.holds)
        IN /\ Len(risk.alerts) = Len(fired)
           /\ \A i \in 1..Len(fired) :
                risk.alerts[i] = [level |-> fired[i].level,
                                  category |-> fired[i].category]
\* all six rules hold at once and six alerts come back
C25_Witness ==
    /\ Len(risk.alerts) = 6
    /\ risk.alerts[1].category = "var"
    /\ risk.alerts[6].category = "correlation"
    /\ risk.fetched = RiskHeldLow
    /\ risk.metrics.var95 = 201
    /\ risk.metrics.liquidity.liquidityRatio = 29

\* C27: calculateRiskMetrics leaves the account snapshot as the broker
\* answered it, the order of its positions included, so that handleEmergency
\* is handed the positions in the broker's order.
C27_SnapshotUnchanged == risk.balance = risk.fetched

\* C28: for every snapshot, one without positions included, the
\* maxSinglePosition of calculateConcentrationRisk is a number in [0, 1] and
\* the sector weights add up to what the position weights add up to.
C28_ConcentrationBounds ==
    (risk.performanceHistory # << >>) =>
        LET c == risk.metrics.concentration
            b == risk.fetched
            sc == c.sectorConcentration
            RECURSIVE SectorTotal(_)
            SectorTotal(secs) ==
                IF secs = {} THEN 0
                ELSE LET sec == CHOOSE x \in secs : TRUE
                     IN sc[sec].num + SectorTotal(secs \ {sec})
            RECURSIVE PositionTotal(_)
            PositionTotal(k) ==
                IF k > Len(b.positions) THEN 0
                ELSE b.positions[k].evaluationAmount + PositionTotal(k + 1)
        IN /\ c.maxSinglePosition.den # 0
           /\ 0 <= c.maxSinglePosition.num
           /\ c.maxSinglePosition.num <= c.maxSinglePosition.den
           /\ \A sec \in DOMAIN sc : sc[sec].den = b.totalAssets
           /\ SectorTotal(DOMAIN sc) = PositionTotal(1)

\* C29 as stated: for a portfolio with at least one position, var99 >=
\* var95 >= 0 whatever values the simulation draws.
C29_VaRNonNegative ==
    (calc.fn = "calculatePortfolioVaR") =>
        /\ calc.answer.var99 >= calc.answer.var95
        /\ calc.answer.var95 >= 0

\* C29 as the code has it: var95 and var99 are the current total minus the
\* simulated totals at the 5th- and 1st-percentile index of the ascending
\* order, so var99 >= var95 whatever is drawn, while var95 >= 0 exactly
\* when more simulated totals than the 5th-percentile index are at or
\* below the current total.
C29_VaROrdered ==
    (calc.fn = "calculatePortfolioVaR") =>
        LET values == calc.answer.portfolioValues
            current == calc.balance.totalAssets * 100
            n == Len(values)
            \* v is the value at index k (from 0) of the ascending order
            AtIndex(v, k) ==
                /\ \E i \in 1..n : values[i] = v
                /\ Cardinality({i \in 1..n : values[i] < v}) <= k
                /\ Cardinality({i \in 1..n : values[i] <= v}) > k
        IN /\ n = NumSimulations
           /\ AtIndex(current - calc.answer.var95, (n * 5) \div 100)
           /\ AtIndex(current - calc.answer.var99, n \div 100)
           /\ calc.answer.var99 >= calc.answer.var95
           /\ (calc.answer.var95 >= 0) <=>
                 (Cardinality({i \in 1..n : values[i] <= current})
                    > (n * 5) \div 100)
\* every trial of an all-stock portfolio drew a gain, the smallest gain not
\* in the first trial: var95 is negative and var99 is above it
C29_Witness ==
    /\ calc.fn = "calculatePortfolioVaR"
    /\ calc.balance = AcctOne
    /\ calc.answer.var95 < 0
    /\ calc.answer.var99 > calc.answer.var95
    /\ calc.answer.portfolioValues[1] > calc.answer.portfolioValues[2]

\* C30: generateTradingDecisions gives, for each signal, a buy decision
\* exactly when targetWeight > currentWeight + 0.01 and a sell decision
\* exactly when targetWeight < currentWeight - 0.01, currentWeight being 0
\* for a symbol not held, and no decision otherwise: its answer holds no
\* "hold" decision, and the decisions stand in the order of their signals.
C30_DecisionPerSignal ==
    (calc.fn = "generateTradingDecisions") =>
        LET signals == calc.signals
            total == calc.balance.totalAssets
            held == calc.balance.positions
            \* currentWeight * totalAssets
            Current(i) ==
                IF \E k \in 1..Len(held) : held[k].symbol = signals[i].symbol
                  THEN held[CHOOSE k \in 1..Len(held) :
                              held[k].symbol = signals[i].symbol].evaluationAmount
                  ELSE 0
            \* targetWeight in 1/100000
            Target(i) ==
                calculateTargetWeight(signals[i].confidence, calc.sentiment, config)
            IsBuy(i) == Target(i) * total > Current(i) * 100000 + 1000 * total
            IsSell(i) == Target(i) * total < Current(i) * 100000 - 1000 * total
            kept == {i \in 1..Len(signals) : IsBuy(i) \/ IsSell(i)}
        IN /\ Len(calc.answer) = Cardinality(kept)
           /\ \A k \in 1..Len(calc.answer) : calc.answer[k].action # "hold"
           /\ \A i \in kept :
                LET d == calc.answer[Cardinality({j \in kept : j <= i})]
                IN /\ d.symbol = signals[i].symbol
                   /\ d.confidence = signals[i].confidence
                   /\ d.targetSize = Target(i)
                   /\ d.action = IF IsBuy(i) THEN "buy" ELSE "sell"
\* three signals on a snapshot holding A at 9.5% and B at 3.5%: C, not
\* held, is bought, A stays within the band and gives no decision, B is
\* bought; the two decisions stand in the order of their signals
C30_Witness ==
    /\ calc.fn = "generateTradingDecisions"
    /\ calc.balance = AcctBand
    /\ calc.sentiment = "bullish"
    /\ calc.signals = << [symbol |-> "C", confidence |-> 80],
                         [symbol |-> "A", confidence |-> 80],
                         [symbol |-> "B", confidence |-> 40] >>
    /\ Len(calc.answer) = 2
    /\ calc.answer[1].symbol = "C" /\ calc.answer[1].action = "buy"
    /\ calc.answer[2].symbol = "B" /\ calc.answer[2].action = "buy"

\* C31: for every confidence in [0, 1] and every market sentiment, known
\* or not, calculateTargetWeight answers confidence * maxPositionSize *
\* sentimentMultiplier (1.2 bullish, 1.0 neutral or unknown, 0.8 bearish)
\* capped at maxPositionSize, a weight within [0, maxPositionSize].
C31_TargetWeightCapped ==
    (calc.fn = "calculateTargetWeight") =>
        LET multiplier == IF calc.sentiment = "bullish" THEN 12
                          ELSE IF calc.sentiment = "bearish" THEN 8 ELSE 10
            product == calc.confidence * calc.maxPositionSize * multiplier
            cap == calc.maxPositionSize * 1000
        IN /\ calc.answer = IF product <= cap THEN product ELSE cap
           /\ 0 <= calc.answer
           /\ calc.answer <= cap
\* confidence 0.9 in a bullish market: 0.9 * 0.1 * 1.2 is cut to 0.1
C31_Witness ==
    /\ calc.fn = "calculateTargetWeight"
    /\ calc.confidence = 90
    /\ calc.sentiment = "bullish"
    /\ calc.maxPositionSize = 10
    /\ calc.answer = 10000

\* C32: the filter of executeRebalancing drops every decision whose
\* riskScore exceeds 0.7 and goes on with the decisions after it: unless
\* the daily quota closed the filter, the valid decisions are the generated
\* ones with riskScore <= 0.7 and confidence at or above the threshold, in
\* their order; and no placeOrder call of a batch is for a decision with
\* riskScore above 0.7.
C32_HighRiskDropped ==
    [][\A p \in Procs :
         /\ (/\ inv[p].pc \in {"rb_analysis", "rb_signals"}
             /\ (inv'[p].pc \in BatchPcs \/ ReturnedResults(inv'[p])))
              => inv'[p].validDecisions =
                   IF dailyTrades' >= config.maxTradesPerDay THEN << >>
                   ELSE SelectSeq(inv'[p].decisions,
                                  LAMBDA d : /\ d.riskScore <= 700
                                             /\ d.confidence >= config.confidenceThreshold)
         /\ (~InSweep(inv'[p]) /\ inv'[p].pc = "es_order")
              => /\ inv'[p].decision.riskScore <= 700
                 /\ inv'[p].order.symbol = inv'[p].decision.symbol
                 /\ \E k \in 1..Len(inv'[p].validDecisions) :
                      inv'[p].validDecisions[k] = inv'[p].decision
      ]_vars
\* the decision for A, of riskScore 0.74, was dropped and the decision for
\* B after it was accepted and its order placed
C32_Witness ==
    \E p \in Procs :
        /\ inv[p].pc = "es_order"
        /\ Len(inv[p].decisions) = 2
        /\ inv[p].decisions[1].symbol = "A"
        /\ inv[p].decisions[1].riskScore = 740
        /\ Len(inv[p].validDecisions) = 1
        /\ inv[p].validDecisions[1].symbol = "B"
        /\ inv[p].order.symbol = "B"

C34_SweepHandlesEveryPosition ==
    [][\A m \in Procs :
         (InSweep(inv[m]) /\ ~InSweep(inv'[m])) =>
            LET l == inv[m]
                ps == l.sweepBalance.positions
            IN ~ \E i \in 1..Len(ps) :
                   \/ 2 * i - 1 > l.sweepStep /\ ps[i].profitLossRate <= -5
                   \/ 2 * i > l.sweepStep /\ ps[i].profitLossRate >= 20
      ]_vars

\* C35: no step of a sweep of checkStopLossAndTakeProfit, from its
\* getAccountBalance to the end of its last forced sell, whether the sell
\* succeeds or fails, changes dailyTrades, lastTradeDate or the cumulative
\* performance counters.
C35_SweepLeavesCounters ==
    [][\A m \in Procs :
         (/\ InSweep(inv[m]) \/ inv[m].pc = "sw_balance"
          /\ inv'[m] # inv[m])
         => UNCHANGED <<dailyTrades, lastTradeDate, performanceMetrics>>
      ]_vars
\* with the daily quota used up by a batch, a sweep had its stop-loss sell
\* of A, of riskScore 1.0, answered by the broker and is placing the
\* take-profit order for B; the counters are what the batch left
C35_Witness ==
    \E m \in Procs :
        /\ InSweep(inv[m])
        /\ inv[m].sweepBalance = AcctHeld
        /\ inv[m].sweepStep = 4
        /\ inv[m].pc = "es_order"
        /\ dailyTrades = config.maxTradesPerDay
        /\ performanceMetrics.totalTrades = 1

\* C36: the risk system works with the riskLimits the trading engine has
\* at the time: after updateConfiguration changed riskLimits, a request's
\* generateRiskAlerts and checkCircuitBreakers take their thresholds from
\* the updated limits.
C36_RiskSystemUsesLiveLimits ==
    [][(risk' # risk) =>
          /\ risk'.alerts = generateRiskAlerts(risk'.metrics, config.riskLimits)
          /\ risk'.breakers = checkCircuitBreakers(risk'.metrics, config.riskLimits)
      ]_vars

\* C37: within one handleEmergency call the sell orders submitted for a
\* symbol never add up to more than the quantity of it held in the account
\* snapshot, whichever breakers are triggered together.
C37_SellsWithinHolding ==
    \A k \in DOMAIN em.balance.positions :
        LET symbol == em.balance.positions[k].symbol
            RECURSIVE Submitted(_)
            Submitted(n) ==
                IF n = 0 THEN 0
                ELSE (IF em.log[n].order.symbol = symbol
                        THEN em.log[n].order.quantity ELSE 0)
                     + Submitted(n - 1)
        IN Submitted(Len(em.log)) <= em.balance.positions[k].quantity

\* C38: an order executeSingleTrade submits agrees with the account
\* snapshot it fetched for it: it is a buy exactly when the target amount is
\* above the amount held of the symbol and a sell exactly when it is below,
\* and a sell is for no more than the quantity held; for the decisions of a
\* rebalancing cycle and for the forced sells of the monitor alike.
C38_OrderMatchesFetchedAccount ==
    [][\A p \in Procs :
         (inv[p].pc = "es_price" /\ inv'[p].pc = "es_order") =>
           LET l == inv[p]
               order == inv'[p].order
               pos == FindPosition(l.esBalance.positions, l.decision.symbol)
               cur == IF Len(pos) > 0 THEN pos[1].evaluationAmount ELSE 0
               held == IF Len(pos) > 0 THEN pos[1].quantity ELSE 0
               target == l.esBalance.totalAssets * l.decision.targetSize
           IN /\ (order.orderType = "buy") <=> (target > cur * WeightUnit)
              /\ (order.orderType = "sell") <=> (target < cur * WeightUnit)
              /\ (order.orderType = "sell") => order.quantity <= held
      ]_vars

\* C39: with rebalanceFrequency realtime at most one monitoring interval
\* is registered and not cleared, after any sequence of start() and stop()
\* calls, and a tick that finds isRunning false clears its interval and
\* calls neither the broker nor the AI.
C39_OneLiveTimer ==
    [][/\ timers' <= 1
       /\ \A m \in Monitors :
             (timers' < timers) =>
                /\ ~isRunning
                /\ timers' = timers - 1
                /\ inv[m].pc = "idle" /\ inv'[m].pc = "idle"
      ]_vars

====
